---- MODULE Spec2Model ----
(***************************************************************************)
(* Model of the scan orchestration of backend/main.py: start_scan creates  *)
(* a Scan with one ScanResult per TestDefinition, run_all_tests_for_scan   *)
(* fans the results out to run_single_test tasks, joins them with          *)
(* asyncio.gather and derives the Scan status.                             *)
(*                                                                         *)
(* Atomicity: asyncio tasks interleave only at awaits, and every store     *)
(* transaction of the code touches rows no concurrent transaction writes,  *)
(* so each transaction (async with session.begin()) is one action.         *)
(* start_scan is one action where requests do not overlap (Spec, SpecEnv)  *)
(* and is split at its website lookup where they do (SpecCreate,           *)
(* SpecServe): two requests for a new URL then meet at the unique index.   *)
(* Fault model: a store operation fails, or code outside a try block       *)
(* raises, at the places the code guards with an except clause             *)
(* (main.py lines 157, 238, 268, 285, 321).                                *)
(***************************************************************************)
EXTENDS Naturals, Sequences, FiniteSets

\* ---- bounds of the model ----
NumTests == 2
MaxScans == 2
NumUrls == 2
MaxRequests == 3
MaxFaults == 2
MaxDeletes == 2
MaxSoloScans == 1

\* ---- models.TestStatusEnum, models.TestResultEnum ----
PENDING == "pending"
IN_PROGRESS == "in_progress"
COMPLETED == "completed"
FAILED == "failed"
ERROR == "error"
TestStatusEnum == {PENDING, IN_PROGRESS, COMPLETED, FAILED, ERROR}

NOT_RUN == "not_run"
PASSED == "passed"
VULNERABLE == "vulnerable"
INFO == "info"
TestResultEnum == {NOT_RUN, PASSED, VULNERABLE, INFO}

\* a NULL column, and the value of datetime.now() (only its nullness is kept)
NULL == "NULL"
Now == "now"

\* ---- the catalog of populate_test_definitions ----
test_defs ==
  << "Vulnerability Scanning",
     "Web Application Firewall (WAF) Testing",
     "Cross-Site Scripting (XSS) Testing",
     "SQL Injection Testing",
     "Denial of Service (DoS) Testing",
     "Directory Traversal",
     "API Security Testing",
     "Session Management Testing",
     "Cryptography and SSL/TLS Testing",
     "Social Engineering Testing" >>

CryptoName == "Cryptography and SSL/TLS Testing"

\* position of the one real probe in test_defs
CryptoIndex == 9

\* the NumTests catalog entries the model seeds: a window of test_defs that
\* ends at the real probe, so that both kinds of probe run
SeededNames == SubSeq(test_defs, CryptoIndex + 1 - NumTests, CryptoIndex)

Urls == 1..NumUrls
ScanIds == 1..MaxScans
RIds == 1..(MaxScans * NumTests)
ReqIds == 1..MaxRequests
TIds == 1..(NumTests + MaxDeletes)

VARIABLES
  websites,          \* table websites: sequence of rows, id = index
  test_definitions,  \* table test_definitions: sequence of rows, id = index
  scans,             \* table scans: sequence of rows, id = index
  scan_results,      \* table scan_results: sequence of rows, id = index
  coord,             \* run_all_tests_for_scan per scan id: its position and locals
  unit,              \* run_single_test per scan result id: its position and locals
  faults,            \* number of failures injected so far
  requests           \* start_scan per request in flight: its position and locals

vars == <<websites, test_definitions, scans, scan_results, coord, unit, faults, requests>>

\* ids of the rows of a table that are present
Present(table) == {i \in DOMAIN table : table[i].present}

\* the select without its where clause
ResultIdsOf_AllScans(s) == Present(scan_results)

\* select(models.ScanResult.id).where(scan_id == s)
ResultIdsOf(s) == {r \in Present(scan_results) : scan_results[r].scan_id = s}

\* select(models.Website).filter_by(url = u)
WebsiteByUrl(u) == {w \in Present(websites) : websites[w].url = u}

\* a task before it exists; lines 140, 163, 164, 167 give the locals their first values
NoUnit ==
  [pc |-> "none", test_name |-> NULL, final_status |-> ERROR, outcome |-> NOT_RUN,
   summary_text |-> "did not complete."]
NoCoord == [pc |-> "none", scan_result_ids |-> {}]

\* the id of no row: what scalars().first() leaves in a local when nothing is found
NoRow == 0

\* a request handler before the request arrives
NoRequest ==
  [pc |-> "idle", url_to_scan |-> NoRow, website |-> NoRow, status_code |-> NoRow,
   new_scan |-> NoRow, response_data |-> NULL]

Init ==
  /\ websites = << >>
  /\ test_definitions = [i \in 1..NumTests |-> [present |-> TRUE, name |-> SeededNames[i]]]
  /\ scans = << >>
  /\ scan_results = << >>
  /\ coord = [s \in ScanIds |-> NoCoord]
  /\ unit = [r \in RIds |-> NoUnit]
  /\ faults = 0
  /\ requests = [q \in ReqIds |-> NoRequest]

\* ---- start_scan: POST /scans ----

\* start_scan with a loop that stops one test definition short
NewResults_ShortByOne(s, all_tests) ==
  [i \in 1..(Len(all_tests) - 1) |->
     [present |-> TRUE, scan_id |-> s, test_definition_id |-> all_tests[i],
      status |-> PENDING, result |-> NOT_RUN, summary |-> NULL,
      started_at |-> NULL, completed_at |-> NULL]]

\* the ScanResult rows start_scan adds for scan s, one per test definition
NewResults(s, all_tests) ==
  [i \in 1..Len(all_tests) |->
     [present |-> TRUE, scan_id |-> s, test_definition_id |-> all_tests[i],
      status |-> PENDING, result |-> NOT_RUN, summary |-> NULL,
      started_at |-> NULL, completed_at |-> NULL]]

\* the ids of a set of rows in ascending order
RECURSIVE SortedIds(_)
SortedIds(S) ==
  IF S = {} THEN << >>
  ELSE LET m == CHOOSE x \in S : \A y \in S : x <= y
       IN  <<m>> \o SortedIds(S \ {m})

start_scan(url) ==
  LET found == WebsiteByUrl(url)
      all_tests == SortedIds(Present(test_definitions))
      wid == IF found = {} THEN Len(websites) + 1 ELSE CHOOSE w \in found : TRUE
      sid == Len(scans) + 1
      withSite == IF found = {}
                  THEN Append(websites, [present |-> TRUE, url |-> url, last_scan_at |-> NULL])
                  ELSE websites
  IN  /\ Len(scans) < MaxScans
      /\ all_tests # << >>
      /\ websites' = [withSite EXCEPT ![wid].last_scan_at = Now]
      /\ scans' = Append(scans, [present |-> TRUE, website_id |-> wid,
                                 status |-> PENDING, completed_at |-> NULL])
      /\ scan_results' = scan_results \o NewResults(sid, all_tests)
      /\ coord' = [coord EXCEPT ![sid] = [pc |-> "scheduled", scan_result_ids |-> {}]]
      /\ UNCHANGED <<test_definitions, unit, faults, requests>>

\* ---- run_single_test: one task per ScanResult id ----

TaskDone == {"returned", "raised"}

\* scan_result.test_definition.name of row r (selectinload), NULL when either row is gone
TestNameOf(r) ==
  IF r \in Present(scan_results)
     /\ scan_results[r].test_definition_id \in Present(test_definitions)
  THEN test_definitions[scan_results[r].test_definition_id].name
  ELSE NULL

\* a handler that has caught a failure logs it with print(), outside every try:
\* the task returns, or raises when that statement fails (esc)
AfterHandler(esc) == IF esc THEN "raised" ELSE "returned"

\* the failures an action injects stay within the budget
Inject(n) ==
  /\ faults + n <= MaxFaults
  /\ faults' = faults + n

Cost(esc) == IF esc THEN 1 ELSE 0

\* step 1 without the status assignment of line 154
Begin_KeepsPending(r) ==
  /\ unit[r].pc = "ready"
  /\ TestNameOf(r) # NULL
  /\ scan_results' = [scan_results EXCEPT ![r].started_at = Now]
  /\ unit' = [unit EXCEPT ![r].pc = "probe", ![r].test_name = TestNameOf(r)]
  /\ UNCHANGED <<websites, test_definitions, scans, coord, faults, requests>>

\* step 1 also marking the Scan of the result as running
Begin_MarksScanInProgress(r) ==
  /\ unit[r].pc = "ready"
  /\ TestNameOf(r) # NULL
  /\ scan_results' = [scan_results EXCEPT ![r].status = IN_PROGRESS,
                                          ![r].started_at = Now]
  /\ scans' = [scans EXCEPT ![scan_results[r].scan_id].status = IN_PROGRESS]
  /\ unit' = [unit EXCEPT ![r].pc = "probe", ![r].test_name = TestNameOf(r)]
  /\ UNCHANGED <<websites, test_definitions, coord, faults, requests>>

\* step 1, lines 141-156: the transaction that marks the result IN_PROGRESS
Begin(r) ==
  /\ unit[r].pc = "ready"
  /\ TestNameOf(r) # NULL
  /\ scan_results' = [scan_results EXCEPT ![r].status = IN_PROGRESS,
                                          ![r].started_at = Now]
  /\ unit' = [unit EXCEPT ![r].pc = "probe", ![r].test_name = TestNameOf(r)]
  /\ UNCHANGED <<websites, test_definitions, scans, coord, faults, requests>>

\* a failed begin that cancels the tasks of the same scan that are still running
BeginFail_CancelsSiblings(r, esc) ==
  /\ unit[r].pc = "ready"
  /\ Inject(1 + Cost(esc))
  /\ unit' = [q \in RIds |->
                IF q = r THEN [unit[q] EXCEPT !.pc = AfterHandler(esc)]
                ELSE IF /\ q \in Present(scan_results) /\ r \in Present(scan_results)
                        /\ scan_results[q].scan_id = scan_results[r].scan_id
                        /\ unit[q].pc \notin {"none", "returned", "raised"}
                     THEN [unit[q] EXCEPT !.pc = "cancelled"]
                     ELSE unit[q]]
  /\ UNCHANGED <<websites, test_definitions, scans, scan_results, coord, requests>>

\* step 1 failing after its write has reached the store
BeginFail_LeavesInProgress(r, esc) ==
  /\ unit[r].pc = "ready"
  /\ Inject(1 + Cost(esc))
  /\ scan_results' = IF r \in Present(scan_results)
                     THEN [scan_results EXCEPT ![r].status = IN_PROGRESS,
                                               ![r].started_at = Now]
                     ELSE scan_results
  /\ unit' = [unit EXCEPT ![r].pc = AfterHandler(esc)]
  /\ UNCHANGED <<websites, test_definitions, scans, coord, requests>>

\* step 1, lines 157-160: the transaction raises and nothing is committed
BeginFail(r, esc) ==
  /\ unit[r].pc = "ready"
  /\ Inject(1 + Cost(esc))
  /\ unit' = [unit EXCEPT ![r].pc = AfterHandler(esc)]
  /\ UNCHANGED <<websites, test_definitions, scans, scan_results, coord, requests>>

\* ---- the HTTPS probe, lines 170-218 ----

\* the classes of requests.exceptions that requests.get and raise_for_status
\* raise, each with its ancestors; "Exception" is any other exception
Ancestors(cls) ==
  CASE cls = "SSLError" -> {"SSLError", "ConnectionError", "RequestException"}
    [] cls = "ConnectTimeout" -> {"ConnectTimeout", "ConnectionError", "Timeout", "RequestException"}
    [] cls = "ReadTimeout" -> {"ReadTimeout", "Timeout", "RequestException"}
    [] cls = "ConnectionError" -> {"ConnectionError", "RequestException"}
    [] cls = "HTTPError" -> {"HTTPError", "RequestException"}
    [] cls = "TooManyRedirects" -> {"TooManyRedirects", "RequestException"}
    [] OTHER -> {"Exception"}

ExceptionClasses ==
  {"SSLError", "ConnectTimeout", "ReadTimeout", "ConnectionError", "HTTPError",
   "TooManyRedirects", "Exception"}

\* what requests.get does: a response (final scheme, status below 400 or not)
\* or an exception
Responses ==
  [kind : {"response"}, scheme : {"https", "http"}, ok : BOOLEAN]
  \cup [kind : {"raise"}, cls : ExceptionClasses]

\* the exception the try body of lines 176-193 ends with, NULL when it ends normally
Raised(resp) ==
  IF resp.kind = "raise" THEN resp.cls
  ELSE IF ~resp.ok THEN "HTTPError" ELSE NULL

\* the probe reporting PASSED for every response, whatever its final scheme
HttpsProbe_SchemeIgnored(resp) ==
  LET e == Raised(resp)
  IN  IF e = NULL
      THEN [final_status |-> COMPLETED, outcome |-> PASSED,
            summary_text |-> "Website uses HTTPS."]
      ELSE IF "SSLError" \in Ancestors(e)
           THEN [final_status |-> COMPLETED, outcome |-> VULNERABLE,
                 summary_text |-> "SSL/TLS Certificate Error."]
      ELSE IF "Timeout" \in Ancestors(e)
           THEN [final_status |-> COMPLETED, outcome |-> INFO,
                 summary_text |-> "Request Timed Out."]
      ELSE IF "ConnectionError" \in Ancestors(e)
           THEN [final_status |-> COMPLETED, outcome |-> INFO,
                 summary_text |-> "Connection Error."]
      ELSE IF "RequestException" \in Ancestors(e)
           THEN [final_status |-> COMPLETED, outcome |-> INFO,
                 summary_text |-> "Request Error."]
      ELSE [final_status |-> ERROR, outcome |-> NOT_RUN,
            summary_text |-> "An unexpected error occurred."]

\* the except clauses with ConnectionError tried first
HttpsProbe_ConnectionErrorFirst(resp) ==
  LET e == Raised(resp)
  IN  IF e = NULL
      THEN IF resp.scheme = "https"
           THEN [final_status |-> COMPLETED, outcome |-> PASSED,
                 summary_text |-> "Website uses HTTPS."]
           ELSE [final_status |-> COMPLETED, outcome |-> VULNERABLE,
                 summary_text |-> "Website does not enforce HTTPS."]
      ELSE IF "ConnectionError" \in Ancestors(e)
           THEN [final_status |-> COMPLETED, outcome |-> INFO,
                 summary_text |-> "Connection Error."]
      ELSE IF "SSLError" \in Ancestors(e)
           THEN [final_status |-> COMPLETED, outcome |-> VULNERABLE,
                 summary_text |-> "SSL/TLS Certificate Error."]
      ELSE IF "Timeout" \in Ancestors(e)
           THEN [final_status |-> COMPLETED, outcome |-> INFO,
                 summary_text |-> "Request Timed Out."]
      ELSE IF "RequestException" \in Ancestors(e)
           THEN [final_status |-> COMPLETED, outcome |-> INFO,
                 summary_text |-> "Request Error."]
      ELSE [final_status |-> ERROR, outcome |-> NOT_RUN,
            summary_text |-> "An unexpected error occurred."]

\* the except clauses of lines 195-218, in their order; the outer clause of line 238
HttpsProbe(resp) ==
  LET e == Raised(resp)
  IN  IF e = NULL
      THEN IF resp.scheme = "https"
           THEN [final_status |-> COMPLETED, outcome |-> PASSED,
                 summary_text |-> "Website uses HTTPS."]
           ELSE [final_status |-> COMPLETED, outcome |-> VULNERABLE,
                 summary_text |-> "Website does not enforce HTTPS."]
      ELSE IF "SSLError" \in Ancestors(e)
           THEN [final_status |-> COMPLETED, outcome |-> VULNERABLE,
                 summary_text |-> "SSL/TLS Certificate Error."]
      ELSE IF "Timeout" \in Ancestors(e)
           THEN [final_status |-> COMPLETED, outcome |-> INFO,
                 summary_text |-> "Request Timed Out."]
      ELSE IF "ConnectionError" \in Ancestors(e)
           THEN [final_status |-> COMPLETED, outcome |-> INFO,
                 summary_text |-> "Connection Error."]
      ELSE IF "RequestException" \in Ancestors(e)
           THEN [final_status |-> COMPLETED, outcome |-> INFO,
                 summary_text |-> "Request Error."]
      ELSE [final_status |-> ERROR, outcome |-> NOT_RUN,
            summary_text |-> "An unexpected error occurred."]

\* step 2 for the real probe: requests.get blocks the event loop, so the whole
\* probe is one step. esc: the print of the handler at line 240 raises.
RunHttpsProbe(r, resp, esc) ==
  LET res == HttpsProbe(resp)
  IN  /\ unit[r].pc = "probe"
      /\ unit[r].test_name = CryptoName
      /\ esc => res.final_status = ERROR
      /\ Inject(Cost(esc))
      /\ unit' = [unit EXCEPT ![r].pc = IF esc THEN "raised" ELSE "finish",
                               ![r].final_status = res.final_status,
                               ![r].outcome = res.outcome,
                               ![r].summary_text = res.summary_text]
      /\ UNCHANGED <<websites, test_definitions, scans, scan_results, coord, requests>>

\* step 2 for a placeholder, line 231: the task suspends in asyncio.sleep
SimulateSleep(r) ==
  /\ unit[r].pc = "probe"
  /\ unit[r].test_name # CryptoName
  /\ unit' = [unit EXCEPT ![r].pc = "sleeping"]
  /\ UNCHANGED <<websites, test_definitions, scans, scan_results, coord, faults, requests>>

\* random.choice drawing from every member of TestResultEnum
SimulateOutcome_AnyResult(r, out) ==
  /\ unit[r].pc = "sleeping"
  /\ unit' = [unit EXCEPT ![r].pc = "finish", ![r].final_status = COMPLETED,
                           ![r].outcome = out,
                           ![r].summary_text = "completed (simulated)."]
  /\ UNCHANGED <<websites, test_definitions, scans, scan_results, coord, faults, requests>>

\* lines 232-236: the sleep is over, random.choice picks the outcome
SimulateOutcome(r, out) ==
  /\ unit[r].pc = "sleeping"
  /\ out \in {PASSED, VULNERABLE, INFO}
  /\ unit' = [unit EXCEPT ![r].pc = "finish", ![r].final_status = COMPLETED,
                           ![r].outcome = out,
                           ![r].summary_text = "completed (simulated)."]
  /\ UNCHANGED <<websites, test_definitions, scans, scan_results, coord, faults, requests>>

\* step 3 writing COMPLETED whatever final_status is
Finish_AlwaysCompleted(r) ==
  /\ unit[r].pc = "finish"
  /\ r \in Present(scan_results)
  /\ scan_results' = [scan_results EXCEPT ![r].status = COMPLETED,
                                          ![r].result = unit[r].outcome,
                                          ![r].summary = unit[r].summary_text,
                                          ![r].completed_at = Now]
  /\ unit' = [unit EXCEPT ![r].pc = "returned"]
  /\ UNCHANGED <<websites, test_definitions, scans, coord, faults, requests>>

\* step 3, lines 248-263: the transaction that writes the final result
Finish(r) ==
  /\ unit[r].pc = "finish"
  /\ r \in Present(scan_results)
  /\ scan_results' = [scan_results EXCEPT ![r].status = unit[r].final_status,
                                          ![r].result = unit[r].outcome,
                                          ![r].summary = unit[r].summary_text,
                                          ![r].completed_at = Now]
  /\ unit' = [unit EXCEPT ![r].pc = "returned"]
  /\ UNCHANGED <<websites, test_definitions, scans, coord, faults, requests>>

\* the handler of line 268 recording the failure in the row
FinishFail_MarksError(r, esc) ==
  /\ unit[r].pc = "finish"
  /\ Inject(1 + Cost(esc))
  /\ scan_results' = IF r \in Present(scan_results)
                     THEN [scan_results EXCEPT ![r].status = ERROR]
                     ELSE scan_results
  /\ unit' = [unit EXCEPT ![r].pc = AfterHandler(esc)]
  /\ UNCHANGED <<websites, test_definitions, scans, coord, requests>>

\* step 3, lines 268-270: the transaction raises and nothing is committed
FinishFail(r, esc) ==
  /\ unit[r].pc = "finish"
  /\ Inject(1 + Cost(esc))
  /\ unit' = [unit EXCEPT ![r].pc = AfterHandler(esc)]
  /\ UNCHANGED <<websites, test_definitions, scans, scan_results, coord, requests>>

\* ---- run_all_tests_for_scan: the background task of a scan ----

\* lines 279-284 and 311-313: the id list is fetched and one task is created
\* per id (the tasks start when the coordinator awaits gather)
FetchIds(s) ==
  LET ids == ResultIdsOf(s)
  IN  /\ coord[s].pc = "scheduled"
      /\ ids # {}
      /\ coord' = [coord EXCEPT ![s] = [pc |-> "gather", scan_result_ids |-> ids]]
      /\ unit' = [r \in RIds |-> IF r \in ids THEN [unit[r] EXCEPT !.pc = "ready"]
                                 ELSE unit[r]]
      /\ UNCHANGED <<websites, test_definitions, scans, scan_results, faults, requests>>

\* the fetch failure path using the other failure member of TestStatusEnum
FetchIdsFail_MarksFailed(s) ==
  /\ coord[s].pc = "scheduled"
  /\ Inject(1)
  /\ scans' = IF s \in Present(scans)
              THEN [scans EXCEPT ![s].status = FAILED, ![s].completed_at = Now]
              ELSE scans
  /\ coord' = [coord EXCEPT ![s].pc = "fetch_failed"]
  /\ UNCHANGED <<websites, test_definitions, scan_results, unit, requests>>

\* lines 285-296: the fetch raises, the scan is marked ERROR in error_session
FetchIdsFail(s) ==
  /\ coord[s].pc = "scheduled"
  /\ Inject(1)
  /\ scans' = IF s \in Present(scans)
              THEN [scans EXCEPT ![s].status = ERROR, ![s].completed_at = Now]
              ELSE scans
  /\ coord' = [coord EXCEPT ![s].pc = "fetch_failed"]
  /\ UNCHANGED <<websites, test_definitions, scan_results, unit, requests>>

\* a join that is over only when a task has raised
GatherOver_OnlyOnRaise(ids) == \E r \in ids : unit[r].pc = "raised"

\* asyncio.gather(*tasks) without return_exceptions, lines 319-324: it returns
\* when every task has returned, and raises as soon as one task has raised
GatherOver(ids) ==
  \/ \A r \in ids : unit[r].pc = "returned"
  \/ \E r \in ids : unit[r].pc = "raised"

Gather(s) ==
  /\ coord[s].pc = "gather"
  /\ GatherOver(coord[s].scan_result_ids)
  /\ coord' = [coord EXCEPT ![s].pc = "aggregate"]
  /\ UNCHANGED <<websites, test_definitions, scans, scan_results, unit, faults, requests>>

\* the loop of lines 342-351 over the statuses of scan.results
RECURSIVE ResultsLoop(_, _)
ResultsLoop(statuses, acc) ==
  IF statuses = << >> THEN acc
  ELSE IF Head(statuses) = ERROR
       THEN [acc EXCEPT !.final_scan_status = ERROR]
  ELSE IF Head(statuses) # COMPLETED
       THEN [final_scan_status |-> ERROR, all_tests_accounted_for |-> FALSE]
  ELSE ResultsLoop(Tail(statuses), acc)

\* the aggregation reporting an unfinished scan as still running
FinalScanStatus_InProgress(statuses, n_ids) ==
  IF \E i \in DOMAIN statuses : statuses[i] \notin {COMPLETED, ERROR}
  THEN IN_PROGRESS
  ELSE IF \E i \in DOMAIN statuses : statuses[i] = ERROR THEN ERROR ELSE COMPLETED

\* the aggregation without the elif of line 346: only ERROR results count
FinalScanStatus_OnlyErrors(statuses, n_ids) ==
  IF \E i \in DOMAIN statuses : statuses[i] = ERROR THEN ERROR ELSE COMPLETED

\* the aggregation with the comparison of line 338 inverted
FinalScanStatus_InvertedGuard(statuses, n_ids) ==
  IF Len(statuses) = n_ids THEN ERROR
  ELSE IF \E i \in DOMAIN statuses : statuses[i] # COMPLETED THEN ERROR ELSE COMPLETED

\* the aggregation deciding from the last loaded result alone
FinalScanStatus_LastResultOnly(statuses, n_ids) ==
  IF statuses # << >> /\ statuses[Len(statuses)] # COMPLETED THEN ERROR ELSE COMPLETED

\* the aggregation without the comparison of line 338
FinalScanStatus_NoCountGuard(statuses, n_ids) ==
  LET start == [final_scan_status |-> COMPLETED, all_tests_accounted_for |-> TRUE]
      after == ResultsLoop(statuses, start)
  IN  IF ~after.all_tests_accounted_for THEN ERROR ELSE after.final_scan_status

\* lines 336-354: the overall status from the loaded results and the number of
\* ids fetched
FinalScanStatus(statuses, n_ids) ==
  LET start == [final_scan_status |-> COMPLETED,
                all_tests_accounted_for |-> Len(statuses) = n_ids]
      after == ResultsLoop(statuses, start)
  IN  IF ~after.all_tests_accounted_for THEN ERROR ELSE after.final_scan_status

\* lines 326-358: the final transaction
Aggregate(s) ==
  LET rows == SortedIds(ResultIdsOf(s))
      statuses == [i \in 1..Len(rows) |-> scan_results[rows[i]].status]
  IN  /\ coord[s].pc = "aggregate"
      /\ scans' = IF s \in Present(scans)
                  THEN [scans EXCEPT
                          ![s].status = FinalScanStatus(statuses,
                                           Cardinality(coord[s].scan_result_ids)),
                          ![s].completed_at = Now]
                  ELSE scans
      /\ coord' = [coord EXCEPT ![s].pc = "done"]
      /\ UNCHANGED <<websites, test_definitions, scan_results, unit, faults, requests>>

\* the steps of the background tasks
Run ==
  \/ \E s \in ScanIds : FetchIds(s)
  \/ \E s \in ScanIds : FetchIdsFail(s)
  \/ \E r \in RIds : Begin(r)
  \/ \E r \in RIds, esc \in BOOLEAN : BeginFail(r, esc)
  \/ \E r \in RIds, resp \in Responses, esc \in BOOLEAN : RunHttpsProbe(r, resp, esc)
  \/ \E r \in RIds : SimulateSleep(r)
  \/ \E r \in RIds, out \in TestResultEnum : SimulateOutcome(r, out)
  \/ \E r \in RIds : Finish(r)
  \/ \E r \in RIds, esc \in BOOLEAN : FinishFail(r, esc)
  \/ \E s \in ScanIds : Gather(s)
  \/ \E s \in ScanIds : Aggregate(s)

Next ==
  \/ \E url \in Urls : start_scan(url)
  \/ Run

Spec == Init /\ [][Next]_vars

\* ---- the store loses rows: the branches that find no row ----

\* a ScanResult row is removed from the store by something other than this program
DeleteResult(r) ==
  /\ r \in Present(scan_results)
  /\ Cardinality(DOMAIN scan_results \ Present(scan_results)) < MaxDeletes
  /\ scan_results' = [scan_results EXCEPT ![r].present = FALSE]
  /\ UNCHANGED <<websites, test_definitions, scans, coord, unit, faults, requests>>

\* a TestDefinition row is removed from the store by something other than this program
DeleteTestDefinition(t) ==
  /\ t \in Present(test_definitions)
  /\ Cardinality(DOMAIN test_definitions \ Present(test_definitions)) < MaxDeletes
  /\ test_definitions' = [test_definitions EXCEPT ![t].present = FALSE]
  /\ UNCHANGED <<websites, scans, scan_results, coord, unit, faults, requests>>

\* step 1, lines 147-149: no row (or no test definition), the task returns
BeginNotFound(r) ==
  /\ unit[r].pc = "ready"
  /\ TestNameOf(r) = NULL
  /\ unit' = [unit EXCEPT ![r].pc = "returned"]
  /\ UNCHANGED <<websites, test_definitions, scans, scan_results, coord, faults, requests>>

\* step 3, lines 264-266: the row is gone at the final update, which is dropped
FinishNotFound(r) ==
  /\ unit[r].pc = "finish"
  /\ r \notin Present(scan_results)
  /\ unit' = [unit EXCEPT ![r].pc = "returned"]
  /\ UNCHANGED <<websites, test_definitions, scans, scan_results, coord, faults, requests>>

\* lines 298-309: the id list is empty; the scan is updated if it is still PENDING
FetchIdsEmpty(s) ==
  /\ coord[s].pc = "scheduled"
  /\ ResultIdsOf(s) = {}
  /\ scans' = IF s \in Present(scans) /\ scans[s].status = PENDING
              THEN [scans EXCEPT ![s].status = COMPLETED, ![s].completed_at = Now]
              ELSE scans
  /\ coord' = [coord EXCEPT ![s].pc = "empty"]
  /\ UNCHANGED <<websites, test_definitions, scan_results, unit, faults, requests>>

\* the store that loses rows is explored with MaxSoloScans scans
SoloScans == Len(scans') <= MaxSoloScans

NextEnv ==
  \/ \E url \in Urls : start_scan(url) /\ SoloScans
  \/ Run
  \/ \E r \in RIds : DeleteResult(r)
  \/ \E t \in TIds : DeleteTestDefinition(t)
  \/ \E r \in RIds : BeginNotFound(r)
  \/ \E r \in RIds : FinishNotFound(r)
  \/ \E s \in ScanIds : FetchIdsEmpty(s)

SpecEnv == Init /\ [][NextEnv]_vars

\* ---- start_scan step by step: requests that overlap, and the catalog ----

\* ScanResponse.model_validate(final_scan_obj), line 454: the scan as the
\* transaction sees it
ScanResponse(s, scans_seen, results_seen) ==
  LET rows == SortedIds({r \in Present(results_seen) : results_seen[r].scan_id = s})
  IN  [id |-> s, status |-> scans_seen[s].status,
       results |-> [i \in 1..Len(rows) |->
                      [status |-> results_seen[rows[i]].status,
                       result |-> results_seen[rows[i]].result]]]

\* lines 391-396: the handler opens its transaction and looks the website up
ReqLookup(q, url) ==
  LET found == WebsiteByUrl(url)
  IN  /\ requests[q].pc = "idle"
      /\ requests' = [requests EXCEPT
                        ![q].pc = "in_tx",
                        ![q].url_to_scan = url,
                        ![q].website = IF found = {} THEN NoRow
                                       ELSE CHOOSE w \in found : TRUE]
      /\ UNCHANGED <<websites, test_definitions, scans, scan_results, coord, unit, faults>>

\* a websites table without the unique index on url
UrlTaken_NoUniqueIndex(q) == FALSE

\* the INSERT of lines 399-401 meets a row another request committed since the
\* lookup
UrlTaken(q) ==
  requests[q].website = NoRow /\ WebsiteByUrl(requests[q].url_to_scan) # {}

\* lines 399-401 and 467-471: the INSERT violates the unique index of
\* models.py line 26, the transaction is rolled back and the caller gets 500
ReqConflict(q) ==
  /\ requests[q].pc = "in_tx"
  /\ UrlTaken(q)
  /\ requests' = [requests EXCEPT ![q].pc = "rejected", ![q].status_code = 500]
  /\ UNCHANGED <<websites, test_definitions, scans, scan_results, coord, unit, faults>>

\* the empty-catalog path committing the website it has flushed
ReqNoTests_KeepsWebsite(q) ==
  /\ requests[q].pc = "in_tx"
  /\ ~UrlTaken(q)
  /\ Present(test_definitions) = {}
  /\ websites' = IF requests[q].website = NoRow
                 THEN Append(websites, [present |-> TRUE, url |-> requests[q].url_to_scan,
                                        last_scan_at |-> NULL])
                 ELSE websites
  /\ requests' = [requests EXCEPT ![q].pc = "rejected", ![q].status_code = 500]
  /\ UNCHANGED <<test_definitions, scans, scan_results, coord, unit, faults>>

\* lines 408-412 and 465-466: no test definition, HTTPException(500) leaves
\* the transaction, which is rolled back with the website it has flushed
ReqNoTests(q) ==
  /\ requests[q].pc = "in_tx"
  /\ ~UrlTaken(q)
  /\ Present(test_definitions) = {}
  /\ requests' = [requests EXCEPT ![q].pc = "rejected", ![q].status_code = 500]
  /\ UNCHANGED <<websites, test_definitions, scans, scan_results, coord, unit, faults>>

\* the handler starting run_all_tests_for_scan itself at line 458
ReqCommit_StartsTask(q) ==
  LET url == requests[q].url_to_scan
      all_tests == SortedIds(Present(test_definitions))
      wid == IF requests[q].website = NoRow THEN Len(websites) + 1 ELSE requests[q].website
      sid == Len(scans) + 1
      withSite == IF requests[q].website = NoRow
                  THEN Append(websites, [present |-> TRUE, url |-> url,
                                         last_scan_at |-> NULL])
                  ELSE websites
  IN  /\ requests[q].pc = "in_tx"
      /\ ~UrlTaken(q)
      /\ Len(scans) < MaxScans
      /\ all_tests # << >>
      /\ websites' = [withSite EXCEPT ![wid].last_scan_at = Now]
      /\ scans' = Append(scans, [present |-> TRUE, website_id |-> wid,
                                 status |-> PENDING, completed_at |-> NULL])
      /\ scan_results' = scan_results \o NewResults(sid, all_tests)
      /\ coord' = [coord EXCEPT ![sid] = [pc |-> "scheduled", scan_result_ids |-> {}]]
      /\ requests' = [requests EXCEPT
                        ![q].pc = "committed",
                        ![q].new_scan = sid,
                        ![q].response_data = ScanResponse(sid, scans', scan_results')]
      /\ UNCHANGED <<test_definitions, unit, faults>>

\* lines 398-460: the rest of the transaction and its commit. The task is
\* handed to BackgroundTasks (line 458), which runs it after the response.
ReqCommit(q) ==
  LET url == requests[q].url_to_scan
      all_tests == SortedIds(Present(test_definitions))
      wid == IF requests[q].website = NoRow THEN Len(websites) + 1 ELSE requests[q].website
      sid == Len(scans) + 1
      withSite == IF requests[q].website = NoRow
                  THEN Append(websites, [present |-> TRUE, url |-> url,
                                         last_scan_at |-> NULL])
                  ELSE websites
  IN  /\ requests[q].pc = "in_tx"
      /\ ~UrlTaken(q)
      /\ Len(scans) < MaxScans
      /\ all_tests # << >>
      /\ websites' = [withSite EXCEPT ![wid].last_scan_at = Now]
      /\ scans' = Append(scans, [present |-> TRUE, website_id |-> wid,
                                 status |-> PENDING, completed_at |-> NULL])
      /\ scan_results' = scan_results \o NewResults(sid, all_tests)
      /\ coord' = [coord EXCEPT ![sid] = [pc |-> "added", scan_result_ids |-> {}]]
      /\ requests' = [requests EXCEPT
                        ![q].pc = "committed",
                        ![q].new_scan = sid,
                        ![q].response_data = ScanResponse(sid, scans', scan_results')]
      /\ UNCHANGED <<test_definitions, unit, faults>>

\* line 463: the handler returns response_data, the response (202, line 379)
\* is sent, and the background task of the request is started
SendResponse(q) ==
  /\ requests[q].pc = "committed"
  /\ requests' = [requests EXCEPT ![q].pc = "responded", ![q].status_code = 202]
  /\ coord' = [coord EXCEPT ![requests[q].new_scan].pc = "scheduled"]
  /\ UNCHANGED <<websites, test_definitions, scans, scan_results, unit, faults>>

\* ---- populate_test_definitions: the catalog at startup ----

\* the loop of lines 123-129 inserting every name without the lookup
RECURSIVE Populate_NoLookup(_, _)
Populate_NoLookup(names, table) ==
  IF names = << >> THEN table
  ELSE Populate_NoLookup(Tail(names), Append(table, [present |-> TRUE, name |-> Head(names)]))

\* the loop of lines 123-129: a name without a row gets one
RECURSIVE Populate(_, _)
Populate(names, table) ==
  IF names = << >> THEN table
  ELSE IF \E t \in Present(table) : table[t].name = Head(names)
       THEN Populate(Tail(names), table)
       ELSE Populate(Tail(names), Append(table, [present |-> TRUE, name |-> Head(names)]))

\* on_startup, lines 97-103: the application starts again (no request is being
\* served) and seeds the catalog in one transaction
populate_test_definitions ==
  /\ \A q \in ReqIds : requests[q].pc \notin {"in_tx", "committed"}
  /\ test_definitions' = Populate(SeededNames, test_definitions)
  /\ UNCHANGED <<websites, scans, scan_results, coord, unit, faults, requests>>

\* requests that overlap, while the catalog loses rows and is seeded again
NextCreate ==
  \/ \E q \in ReqIds, url \in Urls : ReqLookup(q, url)
  \/ \E q \in ReqIds : ReqConflict(q)
  \/ \E q \in ReqIds : ReqNoTests(q)
  \/ \E q \in ReqIds : ReqCommit(q)
  \/ \E q \in ReqIds : SendResponse(q)
  \/ \E t \in TIds : DeleteTestDefinition(t)
  \/ populate_test_definitions

SpecCreate == Init /\ [][NextCreate]_vars

\* a request served step by step, followed by the execution of its scan
NextServe ==
  \/ \E q \in ReqIds, url \in Urls : ReqLookup(q, url)
  \/ \E q \in ReqIds : ReqConflict(q)
  \/ \E q \in ReqIds : ReqCommit(q) /\ SoloScans
  \/ \E q \in ReqIds : SendResponse(q)
  \/ Run

SpecServe == Init /\ [][NextServe]_vars

\* ---- the HTTP request seen from the event loop ----

\* requests.get (line 176) is a synchronous call made on the thread of the
\* event loop: from the call to its return no coroutine of the process runs
LoopFree == \A r \in RIds : unit[r].pc # "requesting"

\* line 176: the task calls requests.get
HttpRequestStart(r) ==
  /\ LoopFree
  /\ unit[r].pc = "probe"
  /\ unit[r].test_name = CryptoName
  /\ unit' = [unit EXCEPT ![r].pc = "requesting"]
  /\ UNCHANGED <<websites, test_definitions, scans, scan_results, coord, faults, requests>>

\* lines 176-244: requests.get returns or raises (after 10 s at the latest for
\* each hop) and the rest of the probe runs without an await
HttpRequestEnd(r, resp, esc) ==
  LET res == HttpsProbe(resp)
  IN  /\ unit[r].pc = "requesting"
      /\ esc => res.final_status = ERROR
      /\ Inject(Cost(esc))
      /\ unit' = [unit EXCEPT ![r].pc = IF esc THEN "raised" ELSE "finish",
                               ![r].final_status = res.final_status,
                               ![r].outcome = res.outcome,
                               ![r].summary_text = res.summary_text]
      /\ UNCHANGED <<websites, test_definitions, scans, scan_results, coord, requests>>

\* one scan, the HTTP request in two steps; every other step needs the event loop
NextBlock ==
  \/ \E url \in Urls : LoopFree /\ start_scan(url) /\ SoloScans
  \/ \E s \in ScanIds : LoopFree /\ FetchIds(s)
  \/ \E s \in ScanIds : LoopFree /\ FetchIdsFail(s)
  \/ \E r \in RIds : LoopFree /\ Begin(r)
  \/ \E r \in RIds, esc \in BOOLEAN : LoopFree /\ BeginFail(r, esc)
  \/ \E r \in RIds : HttpRequestStart(r)
  \/ \E r \in RIds, resp \in Responses, esc \in BOOLEAN : HttpRequestEnd(r, resp, esc)
  \/ \E r \in RIds : LoopFree /\ SimulateSleep(r)
  \/ \E r \in RIds, out \in TestResultEnum : LoopFree /\ SimulateOutcome(r, out)
  \/ \E r \in RIds : LoopFree /\ Finish(r)
  \/ \E r \in RIds, esc \in BOOLEAN : LoopFree /\ FinishFail(r, esc)
  \/ \E s \in ScanIds : LoopFree /\ Gather(s)
  \/ \E s \in ScanIds : LoopFree /\ Aggregate(s)

SpecBlock == Init /\ [][NextBlock]_vars

\* the next step of task r when the event loop can run it
LoopStep(r) ==
  \/ LoopFree /\ Begin(r)
  \/ HttpRequestStart(r)
  \/ \E resp \in Responses : HttpRequestEnd(r, resp, FALSE)
  \/ LoopFree /\ SimulateSleep(r)
  \/ \E out \in TestResultEnum : LoopFree /\ SimulateOutcome(r, out)
  \/ LoopFree /\ Finish(r)

\* ---- scheduling ----

\* the steps a task takes when nothing fails
UnitStep(r) ==
  \/ Begin(r)
  \/ BeginNotFound(r)
  \/ \E resp \in Responses : RunHttpsProbe(r, resp, FALSE)
  \/ SimulateSleep(r)
  \/ \E out \in TestResultEnum : SimulateOutcome(r, out)
  \/ Finish(r)
  \/ FinishNotFound(r)

\* the event loop runs every task that can run; a store operation, the HTTP
\* request (timeout of 10 s) and asyncio.sleep all return
Fairness ==
  /\ \A r \in RIds : WF_vars(UnitStep(r))
  /\ \A s \in ScanIds : WF_vars(FetchIds(s) \/ FetchIdsEmpty(s))
  /\ \A s \in ScanIds : WF_vars(Gather(s))
  /\ \A s \in ScanIds : WF_vars(Aggregate(s))

SpecLive == Init /\ [][NextEnv]_vars /\ Fairness

\* the runs of one scan in which no store operation fails and no handler raises
NextFair ==
  \/ \E url \in Urls : start_scan(url) /\ SoloScans
  \/ \E s \in ScanIds : FetchIds(s)
  \/ \E r \in RIds : Begin(r)
  \/ \E r \in RIds, resp \in Responses : RunHttpsProbe(r, resp, FALSE)
  \/ \E r \in RIds : SimulateSleep(r)
  \/ \E r \in RIds, out \in TestResultEnum : SimulateOutcome(r, out)
  \/ \E r \in RIds : Finish(r)
  \/ \E s \in ScanIds : Gather(s)
  \/ \E s \in ScanIds : Aggregate(s)

SpecFair == Init /\ [][NextFair]_vars /\ Fairness

\* ---- properties ----

Terminal == {COMPLETED, ERROR}

\* C1: right after start_scan has committed (its background task has not started)
\* the new Scan is PENDING and has exactly one ScanResult per TestDefinition,
\* each PENDING with outcome NOT_RUN.
C1_CreatedAllPending ==
  \A s \in DOMAIN scans :
    coord[s].pc = "scheduled" =>
      /\ scans[s].status = PENDING
      /\ Cardinality(ResultIdsOf(s)) = Cardinality(Present(test_definitions))
      /\ \A t \in Present(test_definitions) :
           Cardinality({r \in ResultIdsOf(s) : scan_results[r].test_definition_id = t}) = 1
      /\ \A r \in ResultIdsOf(s) :
           scan_results[r].status = PENDING /\ scan_results[r].result = NOT_RUN

C1_Witness ==
  \E s \in DOMAIN scans :
    /\ coord[s].pc = "scheduled"
    /\ Cardinality(ResultIdsOf(s)) = NumTests
    /\ NumTests >= 1

\* C2: a ScanResult's status only moves PENDING -> IN_PROGRESS -> COMPLETED or
\* ERROR; every write of the row is one of these moves, and a row that has been
\* finished has been begun.
C2_ResultStatusMonotonic ==
  [][\A r \in DOMAIN scan_results :
       /\ scan_results'[r] # scan_results[r] =>
            <<scan_results[r].status, scan_results'[r].status>> \in
               {<<PENDING, IN_PROGRESS>>, <<IN_PROGRESS, COMPLETED>>, <<IN_PROGRESS, ERROR>>}
       /\ scan_results'[r].completed_at # NULL => scan_results'[r].started_at # NULL]_vars

C2_Witness ==
  \E r1, r2 \in DOMAIN scan_results :
    /\ scan_results[r1].status = COMPLETED /\ scan_results[r1].started_at = Now
    /\ scan_results[r2].status = ERROR /\ scan_results[r2].started_at = Now

\* C3: a Scan is created PENDING and its status changes at most once, from
\* PENDING to COMPLETED or ERROR; it is never IN_PROGRESS or FAILED.
C3_ScanStatusMonotonic ==
  [][/\ \A s \in DOMAIN scans :
          scans'[s].status # scans[s].status =>
            scans[s].status = PENDING /\ scans'[s].status \in {COMPLETED, ERROR}
     /\ \A s \in DOMAIN scans' \ DOMAIN scans : scans'[s].status = PENDING]_vars

C3_Witness ==
  \E s1, s2 \in DOMAIN scans :
    scans[s1].status = COMPLETED /\ scans[s2].status = ERROR

\* C4 as claimed: once the aggregation step has set the Scan status, every
\* ScanResult of the scan is COMPLETED or ERROR.
C4_AllTerminalAfterAggregation ==
  \A s \in DOMAIN scans :
    coord[s].pc = "done" =>
      \A r \in ResultIdsOf(s) : scan_results[r].status \in Terminal

\* C4 amended: once the aggregation step has set the Scan status, either every
\* ScanResult of the scan is COMPLETED or ERROR, or the Scan is ERROR.
C4_TerminalOrScanError ==
  \A s \in DOMAIN scans :
    coord[s].pc = "done" =>
      \/ \A r \in ResultIdsOf(s) : scan_results[r].status \in Terminal
      \/ scans[s].status = ERROR

C4_Witness ==
  \E s \in DOMAIN scans :
    /\ coord[s].pc = "done"
    /\ scans[s].status = ERROR
    /\ \E r \in ResultIdsOf(s) : scan_results[r].status \in {PENDING, IN_PROGRESS}

\* C5: when the aggregation step has run, a scan whose results are all COMPLETED
\* is COMPLETED and a scan with an ERROR result is ERROR.
C5_AggregationRule ==
  \A s \in DOMAIN scans :
    coord[s].pc = "done" =>
      /\ (\A r \in ResultIdsOf(s) : scan_results[r].status = COMPLETED)
            => scans[s].status = COMPLETED
      /\ (\E r \in ResultIdsOf(s) : scan_results[r].status = ERROR)
            => scans[s].status = ERROR

C5_Witness ==
  \E s \in DOMAIN scans :
    /\ coord[s].pc = "done"
    /\ scans[s].status = COMPLETED
    /\ \E r1, r2 \in ResultIdsOf(s) :
         /\ scan_results[r1].status = COMPLETED /\ scan_results[r1].result = PASSED
         /\ scan_results[r2].status = COMPLETED /\ scan_results[r2].result = VULNERABLE

\* C6 as claimed: the aggregation step starts only when every task of the scan
\* has finished.
C6_JoinWaitsForAll ==
  \A s \in DOMAIN scans :
    coord[s].pc \in {"aggregate", "done"} =>
      \A r \in coord[s].scan_result_ids : unit[r].pc \in TaskDone

\* the probe of task r has raised past the clauses of lines 195-218
Threw(r) ==
  /\ unit[r].pc \in {"finish", "returned", "raised"}
  /\ scan_results[r].started_at # NULL
  /\ unit[r].final_status = ERROR

\* C7 as claimed: a task whose probe raised has, when it returns, left its
\* ScanResult ERROR with outcome NOT_RUN.
C7_ThrowAlwaysReachesError ==
  \A r \in DOMAIN scan_results :
    Threw(r) /\ unit[r].pc = "returned" =>
      scan_results[r].status = ERROR /\ scan_results[r].result = NOT_RUN

\* C7 amended: a ScanResult whose probe raised keeps outcome NOT_RUN and is
\* never COMPLETED: it is ERROR once the finishing write has committed and
\* IN_PROGRESS otherwise; the aggregated Scan status is ERROR.
C7_ThrowNeverCompletes ==
  \A r \in DOMAIN scan_results :
    Threw(r) =>
      /\ scan_results[r].result = NOT_RUN
      /\ scan_results[r].status =
           IF scan_results[r].completed_at # NULL THEN ERROR ELSE IN_PROGRESS
      /\ coord[scan_results[r].scan_id].pc = "done"
           => scans[scan_results[r].scan_id].status = ERROR

C7_Witness ==
  \E r \in DOMAIN scan_results :
    /\ Threw(r)
    /\ scan_results[r].status = ERROR
    /\ scan_results[r].completed_at # NULL
    /\ coord[scan_results[r].scan_id].pc = "done"
    /\ scans[scan_results[r].scan_id].status = ERROR

\* C8: when the fetch of the id list has failed the Scan is ERROR, no task
\* exists for the scan and its ScanResults are as start_scan created them.
C8_FetchFailureLeavesResults ==
  \A s \in DOMAIN scans :
    coord[s].pc = "fetch_failed" =>
      /\ scans[s].status = ERROR
      /\ \A r \in ResultIdsOf(s) :
           /\ unit[r].pc = "none"
           /\ scan_results[r].status = PENDING
           /\ scan_results[r].result = NOT_RUN
           /\ scan_results[r].started_at = NULL
           /\ scan_results[r].completed_at = NULL

C8_Witness ==
  \E s \in DOMAIN scans :
    /\ coord[s].pc = "fetch_failed"
    /\ Cardinality(ResultIdsOf(s)) = NumTests
    /\ scans[s].completed_at = Now

\* C9 as claimed: a scan found without ScanResults is marked ERROR.
C9_EmptyScanMarkedError ==
  \A s \in DOMAIN scans :
    coord[s].pc = "empty" => scans[s].status = ERROR

\* task r has ended without a terminal status in its row
UnitFailed(r) ==
  /\ unit[r].pc \in TaskDone
  /\ r \in Present(scan_results) => scan_results[r].status \notin Terminal

\* C10: a task that fails changes neither the position nor the row of another
\* task; a task that has not finished can always take its next step, whatever
\* happened to the others; and once a scan is at the join, its tasks all finish
\* and the join and the aggregation complete.
C10_FailuresContained ==
  /\ [][\A r \in RIds :
          unit[r].pc \notin TaskDone /\ UnitFailed(r)' =>
            \A q \in RIds \ {r} :
              /\ unit'[q] = unit[q]
              /\ q \in DOMAIN scan_results => scan_results'[q] = scan_results[q]]_vars
  /\ [](\A r \in RIds :
          unit[r].pc \in {"ready", "probe", "sleeping", "finish"} => ENABLED UnitStep(r))
  /\ \A s \in ScanIds :
       coord[s].pc = "gather" ~>
         /\ coord[s].pc = "done"
         /\ \A r \in coord[s].scan_result_ids : unit[r].pc \in TaskDone

C10_Witness ==
  \E r, q \in DOMAIN scan_results :
    /\ r # q
    /\ scan_results[r].scan_id = scan_results[q].scan_id
    /\ UnitFailed(r)
    /\ unit[q].pc = "returned"
    /\ q \in Present(scan_results) /\ scan_results[q].status = COMPLETED
    /\ coord[scan_results[r].scan_id].pc = "done"

\* C11: a request that finds no test definition ends with status 500, and the
\* step that ends it changes no table (no Website, Scan or ScanResult row is
\* added) and starts no background task; a rejected request has no scan.
C11_EmptyCatalogRejected ==
  /\ [][\A q \in ReqIds :
          (/\ requests[q].pc = "in_tx"
           /\ requests'[q].pc # "in_tx"
           /\ Present(test_definitions) = {})
          => /\ requests'[q].pc = "rejected"
             /\ requests'[q].status_code = 500
             /\ <<websites, test_definitions, scans, scan_results>>' =
                  <<websites, test_definitions, scans, scan_results>>
             /\ coord' = coord /\ unit' = unit]_vars
  /\ [](\A q \in ReqIds :
          requests[q].pc = "rejected" =>
            requests[q].new_scan = NoRow /\ requests[q].response_data = NULL)

\* a request for a new URL was rejected for want of test definitions
C11_Witness ==
  \E q \in ReqIds :
    /\ requests[q].pc = "rejected"
    /\ requests[q].status_code = 500
    /\ requests[q].website = NoRow
    /\ WebsiteByUrl(requests[q].url_to_scan) = {}
    /\ Present(test_definitions) = {}
    /\ scans = << >>

\* C12: on every store the program reaches (empty, partly seeded, seeded),
\* seeding leaves exactly one TestDefinition per catalog name, keeps the rows
\* that exist as they are, and seeding again changes nothing.
C12_SeedingIdempotent ==
  LET once == Populate(SeededNames, test_definitions)
  IN  /\ \A i \in 1..Len(SeededNames) :
           Cardinality({t \in Present(once) : once[t].name = SeededNames[i]}) = 1
      /\ Cardinality(Present(once)) = Len(SeededNames)
      /\ SubSeq(once, 1, Len(test_definitions)) = test_definitions
      /\ Populate(SeededNames, once) = once

\* the catalog lost a row and was seeded again: it holds a row of the first
\* seeding and a row of the second
C12_Witness ==
  /\ Cardinality(Present(test_definitions)) = NumTests
  /\ \E t \in DOMAIN test_definitions : ~test_definitions[t].present
  /\ \E t \in Present(test_definitions) : t <= NumTests
  /\ \E t \in Present(test_definitions) : t > NumTests

\* the request that created scan s has been answered 202 with the scan PENDING
\* and every result PENDING with outcome NOT_RUN
Responded(s) ==
  \E q \in ReqIds :
    /\ requests[q].new_scan = s
    /\ requests[q].pc = "responded"
    /\ requests[q].status_code = 202
    /\ requests[q].response_data.status = PENDING
    /\ Len(requests[q].response_data.results) = Cardinality(ResultIdsOf(s))
    /\ \A i \in DOMAIN requests[q].response_data.results :
         /\ requests[q].response_data.results[i].status = PENDING
         /\ requests[q].response_data.results[i].result = NOT_RUN

\* C15: every step of the execution of a scan (a step of its coordinator or of
\* one of its tasks, a write to its Scan row or to one of its ScanResult rows)
\* is taken after the creating transaction has committed and its response,
\* showing every result PENDING, has been sent.
C15_ExecutionAfterResponse ==
  [][\A s \in DOMAIN scans :
       (\/ coord[s].pc \notin {"none", "added"} /\ coord'[s] # coord[s]
        \/ scans'[s] # scans[s]
        \/ \E r \in ResultIdsOf(s) :
             scan_results'[r] # scan_results[r] \/ unit'[r] # unit[r])
       => Responded(s)]_vars

C15_Witness ==
  \E s \in DOMAIN scans :
    /\ Responded(s)
    /\ coord[s].pc = "done"
    /\ scans[s].status = COMPLETED
    /\ Cardinality(ResultIdsOf(s)) = NumTests
    /\ \A r \in ResultIdsOf(s) : scan_results[r].status = COMPLETED

\* C16: no two Website rows have the same url, whatever the order and overlap
\* of the requests; every request that commits adds one Scan, PENDING, linked
\* to the Website of its url (found or created), and sets its last_scan_at.
C16_OneWebsitePerUrl ==
  /\ [](\A u \in Urls : Cardinality(WebsiteByUrl(u)) <= 1)
  /\ [][\A q \in ReqIds :
          requests[q].pc = "in_tx" /\ requests'[q].pc = "committed" =>
            LET s == requests'[q].new_scan
            IN  /\ Len(scans') = Len(scans) + 1
                /\ s = Len(scans')
                /\ scans'[s].status = PENDING
                /\ scans'[s].website_id \in Present(websites')
                /\ websites'[scans'[s].website_id].url = requests[q].url_to_scan
                /\ websites'[scans'[s].website_id].last_scan_at = Now
                /\ \A w \in DOMAIN websites :
                     websites'[w].url = websites[w].url /\ websites'[w].present]_vars

\* two requests for a new URL overlapped, one was rejected; a later request
\* found the Website (with its last_scan_at) and added a second Scan to it
C16_Witness ==
  \E q1, q2, q3 \in ReqIds :
    /\ requests[q1].pc = "responded" /\ requests[q1].website = NoRow
    /\ requests[q2].pc = "rejected" /\ requests[q2].website = NoRow
    /\ requests[q3].pc = "responded" /\ requests[q3].website # NoRow
    /\ requests[q2].url_to_scan = requests[q1].url_to_scan
    /\ requests[q3].url_to_scan = requests[q1].url_to_scan
    /\ Cardinality(WebsiteByUrl(requests[q1].url_to_scan)) = 1
    /\ scans[requests[q1].new_scan].website_id = scans[requests[q3].new_scan].website_id
    /\ Len(test_definitions) = NumTests

\* C13 as claimed: whenever requests.get returns a response, the probe ends
\* COMPLETED with PASSED when the final URL is https and with VULNERABLE when it
\* is http, whatever the response.
C13_SchemeDecidesEveryResponse ==
  [][\A r \in RIds, resp \in Responses :
       resp.kind = "response" /\ RunHttpsProbe(r, resp, FALSE) =>
         /\ unit'[r].final_status = COMPLETED
         /\ unit'[r].outcome = IF resp.scheme = "https" THEN PASSED ELSE VULNERABLE]_vars

\* C13 amended: a response with a status below 400 ends the probe COMPLETED with
\* PASSED when the final URL is https and with VULNERABLE when it is http; a
\* response with status 4xx or 5xx ends it COMPLETED with INFO ("Request
\* Error."), whatever the scheme.
C13_SchemeDecidesOkResponse ==
  [][\A r \in RIds, resp \in Responses :
       resp.kind = "response" /\ RunHttpsProbe(r, resp, FALSE) =>
         /\ unit'[r].final_status = COMPLETED
         /\ resp.ok /\ resp.scheme = "https" =>
              unit'[r].outcome = PASSED /\ unit'[r].summary_text = "Website uses HTTPS."
         /\ resp.ok /\ resp.scheme = "http" =>
              /\ unit'[r].outcome = VULNERABLE
              /\ unit'[r].summary_text = "Website does not enforce HTTPS."
         /\ ~resp.ok =>
              unit'[r].outcome = INFO /\ unit'[r].summary_text = "Request Error."]_vars

C13_Witness ==
  \E r \in DOMAIN scan_results :
    /\ unit[r].test_name = CryptoName
    /\ unit[r].pc = "returned"
    /\ scan_results[r].status = COMPLETED
    /\ scan_results[r].result = VULNERABLE
    /\ scan_results[r].summary = "Website does not enforce HTTPS."

\* what the decision table says of an exception of class cls
C14_Row(cls) ==
  CASE cls = "SSLError" -> <<COMPLETED, VULNERABLE, "SSL/TLS Certificate Error.">>
    [] cls \in {"ConnectTimeout", "ReadTimeout"} -> <<COMPLETED, INFO, "Request Timed Out.">>
    [] cls = "ConnectionError" -> <<COMPLETED, INFO, "Connection Error.">>
    [] cls \in {"HTTPError", "TooManyRedirects"} -> <<COMPLETED, INFO, "Request Error.">>
    [] OTHER -> <<ERROR, NOT_RUN, "An unexpected error occurred.">>

\* C14: when requests.get raises, a certificate error ends the probe COMPLETED
\* with VULNERABLE, a timeout (connect or read), a connection error and any other
\* requests exception end it COMPLETED with INFO, each with the summary of its
\* own class, and only an exception that is not a requests exception ends it
\* ERROR with NOT_RUN.
C14_FailureRows ==
  [][\A r \in RIds, resp \in Responses, esc \in BOOLEAN :
       RunHttpsProbe(r, resp, esc) =>
         /\ resp.kind = "raise" =>
              <<unit'[r].final_status, unit'[r].outcome, unit'[r].summary_text>>
                 = C14_Row(resp.cls)
         /\ unit'[r].final_status = ERROR =>
              resp.kind = "raise" /\ resp.cls = "Exception"]_vars

C14_Witness ==
  \E r \in DOMAIN scan_results :
    /\ unit[r].test_name = CryptoName
    /\ unit[r].pc = "returned"
    /\ scan_results[r].status = COMPLETED
    /\ scan_results[r].result = INFO
    /\ scan_results[r].summary = "Request Timed Out."

\* C17: a Scan that went through the fan-out and is COMPLETED has as many
\* ScanResults as tasks were launched, and every one of them is COMPLETED.
C17_CompletedMeansAllCompleted ==
  \A s \in DOMAIN scans :
    coord[s].pc \in {"gather", "aggregate", "done"} /\ scans[s].status = COMPLETED =>
      /\ Cardinality(ResultIdsOf(s)) = Cardinality(coord[s].scan_result_ids)
      /\ \A r \in ResultIdsOf(s) : scan_results[r].status = COMPLETED

C17_Witness ==
  \E s \in DOMAIN scans :
    /\ coord[s].pc = "done"
    /\ scans[s].status = COMPLETED
    /\ Cardinality(coord[s].scan_result_ids) = NumTests
    /\ \E q \in DOMAIN scans : q # s /\ coord[q].pc = "done" /\ scans[q].status = ERROR

\* C18: when the aggregation loads a number of ScanResults that differs from the
\* number of tasks launched, it sets the Scan to ERROR, whatever the statuses of
\* the loaded results.
C18_CountGuardForcesError ==
  [][\A s \in DOMAIN scans :
       /\ coord[s].pc = "aggregate"
       /\ coord'[s].pc = "done"
       /\ Cardinality(ResultIdsOf(s)) # Cardinality(coord[s].scan_result_ids)
       => scans'[s].status = ERROR]_vars

\* the row of a task was gone before the task began, every loaded result is
\* COMPLETED, and the aggregation has run
C18_Witness ==
  \E s \in DOMAIN scans :
    /\ coord[s].pc = "done"
    /\ scans[s].status = ERROR
    /\ faults = 0
    /\ ResultIdsOf(s) # {}
    /\ \A r \in ResultIdsOf(s) : scan_results[r].status = COMPLETED
    /\ \E q \in coord[s].scan_result_ids :
         q \notin Present(scan_results) /\ unit[q].pc = "returned" /\ unit[q].test_name = NULL

\* task r began and has ended without a committed finishing write (a removed
\* row keeps the fields it had when it was removed)
FinishLost(r) ==
  /\ unit[r].pc \in TaskDone
  /\ unit[r].test_name # NULL
  /\ scan_results[r].completed_at = NULL

\* C19: when the finishing write of a task has failed, or its row was gone at
\* the finishing write, the row (if it exists) stays IN_PROGRESS with outcome
\* NOT_RUN and the aggregated Scan status is ERROR.
C19_LostFinishLeavesInProgress ==
  \A r \in DOMAIN scan_results :
    FinishLost(r) =>
      /\ r \in Present(scan_results) =>
           /\ scan_results[r].status = IN_PROGRESS
           /\ scan_results[r].result = NOT_RUN
      /\ coord[scan_results[r].scan_id].pc = "done"
           => scans[scan_results[r].scan_id].status = ERROR

C19_Witness ==
  \E r, q \in DOMAIN scan_results :
    /\ FinishLost(r) /\ unit[r].pc = "returned" /\ unit[r].final_status = COMPLETED
    /\ r \in Present(scan_results)
    /\ FinishLost(q) /\ q \notin Present(scan_results)
    /\ coord[scan_results[r].scan_id].pc = "done"

\* task r has ended in step 1
BeginAborted(r) ==
  unit[r].pc \in TaskDone /\ unit[r].test_name = NULL

\* C20: a task that ends in step 1 (row or test definition not found, or the
\* transaction failed) has run no probe and no finishing write and leaves its
\* row PENDING with outcome NOT_RUN and no start time; the step that ends it
\* changes no table, no other task and not the coordinator.
C20_BeginFailureAbortsOnlyUnit ==
  /\ [](\A r \in RIds :
          BeginAborted(r) =>
            /\ unit[r].final_status = NoUnit.final_status
            /\ unit[r].outcome = NoUnit.outcome
            /\ r \in Present(scan_results) =>
                 /\ scan_results[r].status = PENDING
                 /\ scan_results[r].result = NOT_RUN
                 /\ scan_results[r].started_at = NULL
                 /\ scan_results[r].completed_at = NULL)
  /\ [][\A r \in RIds :
          unit[r].pc = "ready" /\ unit'[r].pc \in TaskDone =>
            /\ <<websites, test_definitions, scans, scan_results, coord>>' =
                 <<websites, test_definitions, scans, scan_results, coord>>
            /\ \A q \in RIds \ {r} : unit'[q] = unit[q]]_vars

C20_Witness ==
  \E r, q \in DOMAIN scan_results :
    /\ r # q
    /\ scan_results[r].scan_id = scan_results[q].scan_id
    /\ BeginAborted(r)
    /\ r \in Present(scan_results) /\ scan_results[r].status = PENDING
    /\ unit[q].pc = "returned"
    /\ q \in Present(scan_results) /\ scan_results[q].status = COMPLETED

\* task r exists and has not ended
Running(r) == unit[r].pc \in {"ready", "probe", "sleeping", "finish"}

\* C21: a step of the task of ScanResult r changes no row but row r: every
\* other ScanResult, every Scan, Website and TestDefinition stays as it is.
\* A Scan row changes only in the step that creates it, in the aggregation and
\* in the fetch-failure step of its coordinator; a Website row only in a create.
C21_UnitWritesOwnRowOnly ==
  [][/\ \A r \in RIds :
          Running(r) /\ unit'[r] # unit[r] =>
            /\ <<websites, test_definitions, scans>>' = <<websites, test_definitions, scans>>
            /\ DOMAIN scan_results' = DOMAIN scan_results
            /\ \A q \in DOMAIN scan_results \ {r} : scan_results'[q] = scan_results[q]
     /\ \A s \in DOMAIN scans :
          scans'[s] # scans[s] =>
            /\ coord[s].pc \in {"scheduled", "aggregate"}
            /\ coord'[s].pc \in {"fetch_failed", "done"}
     /\ websites' # websites => Len(scans') = Len(scans) + 1]_vars

\* a task has written its row while its sibling's row, its Scan and the rows of
\* another scan are as start_scan left them
C21_Witness ==
  \E r, q \in DOMAIN scan_results, s \in DOMAIN scans :
    /\ r # q
    /\ scan_results[r].scan_id = scan_results[q].scan_id
    /\ scan_results[r].scan_id # s
    /\ unit[r].pc = "returned" /\ scan_results[r].status = COMPLETED
    /\ unit[q].pc = "ready" /\ scan_results[q].status = PENDING
    /\ scans[scan_results[r].scan_id].status = PENDING
    /\ coord[s].pc = "gather"
    /\ \A p \in ResultIdsOf(s) : scan_results[p].status = PENDING

\* task r is waiting inside its probe: in the HTTP request or in the sleep
ProbeWaiting(r) == unit[r].pc \in {"requesting", "sleeping"}

\* C22 as claimed: while a task waits inside its probe (the HTTP request of the
\* real probe, the sleep of a placeholder), every other task of the scan that
\* has not ended and is not itself waiting can take its next step.
C22_SiblingsRunDuringProbeWait ==
  \A r, q \in DOMAIN scan_results :
    /\ r # q
    /\ scan_results[r].scan_id = scan_results[q].scan_id
    /\ ProbeWaiting(r)
    /\ unit[q].pc \in {"ready", "probe", "finish"}
    => ENABLED LoopStep(q)

\* C23: in every state a ScanResult that is PENDING, IN_PROGRESS or ERROR has
\* outcome NOT_RUN and a ScanResult that is COMPLETED has outcome PASSED,
\* VULNERABLE or INFO; its status is never FAILED.
C23_StatusOutcomeConsistent ==
  \A r \in DOMAIN scan_results :
    /\ scan_results[r].status \in {PENDING, IN_PROGRESS, ERROR, COMPLETED}
    /\ scan_results[r].status \in {PENDING, IN_PROGRESS, ERROR} =>
         scan_results[r].result = NOT_RUN
    /\ scan_results[r].status = COMPLETED =>
         scan_results[r].result \in {PASSED, VULNERABLE, INFO}

\* a scan with a placeholder result COMPLETED and the real probe's result ERROR
C23_Witness ==
  \E r, q \in DOMAIN scan_results :
    /\ scan_results[r].scan_id = scan_results[q].scan_id
    /\ unit[r].test_name # CryptoName /\ unit[r].test_name # NULL
    /\ scan_results[r].status = COMPLETED /\ scan_results[r].result = INFO
    /\ unit[q].test_name = CryptoName
    /\ scan_results[q].status = ERROR /\ scan_results[q].result = NOT_RUN

\* C24 as claimed: once the aggregation has set the status of a Scan, no
\* ScanResult of that scan changes any more.
C24_ResultsStableAfterVerdict ==
  [][\A s \in DOMAIN scans :
       coord[s].pc = "done" =>
         \A r \in ResultIdsOf(s) : scan_results'[r] = scan_results[r]]_vars

\* C25: when no store operation fails and every probe ends, a scan whose
\* background task has been scheduled is eventually aggregated: its Scan is
\* COMPLETED or ERROR and each of its ScanResults is COMPLETED or ERROR; and a
\* scan whose tasks have all ended does not stay PENDING.
C25_ScanEventuallyTerminal ==
  /\ \A s \in ScanIds :
       coord[s].pc = "scheduled" ~>
         /\ coord[s].pc = "done"
         /\ scans[s].status \in Terminal
         /\ \A r \in ResultIdsOf(s) : scan_results[r].status \in Terminal
  /\ \A s \in ScanIds :
       (coord[s].pc = "gather" /\ \A r \in coord[s].scan_result_ids : unit[r].pc \in TaskDone)
         ~> (s \in DOMAIN scans /\ scans[s].status # PENDING)

\* no failure was injected; the scan ended ERROR because its real probe
\* raised, with the placeholder's result COMPLETED
C25_Witness ==
  \E s \in DOMAIN scans :
    /\ faults = 0
    /\ coord[s].pc = "done" /\ scans[s].status = ERROR
    /\ scans[s].completed_at = Now
    /\ Cardinality(ResultIdsOf(s)) = NumTests
    /\ \A r \in ResultIdsOf(s) : scan_results[r].status \in Terminal
    /\ \E r \in ResultIdsOf(s) : scan_results[r].status = ERROR
    /\ \E r \in ResultIdsOf(s) : scan_results[r].status = COMPLETED

\* the ScanResult rows that belong to scan s
OwnResults(s) == {r \in Present(scan_results) : scan_results[r].scan_id = s}

\* C26: the coordinator of a scan starts tasks for the ScanResults of its own
\* scan only, a task writes only a ScanResult of the scan that started it, and
\* the aggregation of a scan sets its status from its own ScanResults alone
\* (COMPLETED exactly when all of them are there and COMPLETED) and writes no
\* other Scan, whatever the state of the other scans.
C26_ScansIsolated ==
  [][/\ \A s \in DOMAIN scans :
          coord[s].pc = "scheduled" /\ coord'[s].pc = "gather" =>
            /\ coord'[s].scan_result_ids = OwnResults(s)
            /\ \A r \in RIds : unit'[r] # unit[r] => r \in OwnResults(s)
     /\ \A s \in DOMAIN scans, r \in RIds :
          r \in coord[s].scan_result_ids /\ Running(r) /\ unit'[r] # unit[r] =>
            \A q \in DOMAIN scan_results :
              scan_results'[q] # scan_results[q] => scan_results[q].scan_id = s
     /\ \A s \in DOMAIN scans :
          coord[s].pc = "aggregate" /\ coord'[s].pc = "done" =>
            /\ scans'[s].status =
                 IF /\ \A r \in OwnResults(s) : scan_results[r].status = COMPLETED
                    /\ Cardinality(OwnResults(s)) = Cardinality(coord[s].scan_result_ids)
                 THEN COMPLETED ELSE ERROR
            /\ \A q \in DOMAIN scans \ {s} : scans'[q] = scans[q]]_vars

\* two scans of one Website: one has been aggregated COMPLETED while the other
\* is at the join with an ERROR result and a result still IN_PROGRESS
C26_Witness ==
  \E a, b \in DOMAIN scans :
    /\ a # b
    /\ scans[a].website_id = scans[b].website_id
    /\ coord[b].pc = "done" /\ scans[b].status = COMPLETED
    /\ coord[a].pc = "gather" /\ scans[a].status = PENDING
    /\ \E r \in OwnResults(a) : scan_results[r].status = ERROR
    /\ \E r \in OwnResults(a) : scan_results[r].status = IN_PROGRESS

====
